---- MODULE Spec2Model ----
(***************************************************************************)
(* A model of the CHIP-8 interpreter of src/src/core/processor.rs          *)
(* (struct Processor: new, load, tick and the exec_* rules) driven by the  *)
(* loop of src/src/main.rs.                                                *)
(*                                                                         *)
(* The machine is a record with one field per field of Processor, plus    *)
(* the locals of tick that the host can observe (beep_request, the opcode  *)
(* that tick prints) and a flag telling that a Rust panic unwound the      *)
(* call.  Every exec_* function of the source is an operator from machine  *)
(* record to machine record.  The state starts as Processor::new leaves    *)
(* it; main loads one game and then calls tick once per polled keypad      *)
(* snapshot.  The games and snapshots are drawn from the sets defined      *)
(* below, one family of games per group of properties.                     *)
(***************************************************************************)
(* Two variables are history only: fetch_pc, the address of the last       *)
(* instruction fetched, and calls, the addresses of the calls not yet      *)
(* returned from.                                                          *)
(***************************************************************************)
EXTENDS Integers, Sequences, FiniteSets, TLC

\* ------------------------------------------------------------ constants
MEMORY_SIZE == 4096
STACK_SIZE == 16
KEYPAD_SIZE == 16
OPCODE_SIZE == 2
NUM_REGISTERS == 16
FONT_AREA_START == 0
FONT_AREA_END == 80
PROGRAM_AREA_START == 512
PROGRAM_AREA_END == 4095
WAITING_FOR_INPUT_BIT == 1
UPDATE_VRAM_BIT == 2
CHIP8_WIDTH == 64
CHIP8_HEIGHT == 32

\* Largest values of the Rust integer types u8 and u16.
U8_MAX == 255
U16_MAX == 65535

\* The tick local `opcode` when the tick fetched nothing.
NO_OPCODE == -1

\* The built-in hexadecimal font, 16 glyphs of 5 bytes.
FONTSET ==
    << 240, 144, 144, 144, 240,    32,  96,  32,  32, 112,
       240,  16, 240, 128, 240,   240,  16, 240,  16, 240,
       144, 144, 240,  16,  16,   240, 128, 240,  16, 240,
       240, 128, 240, 144, 240,   240,  16,  32,  64,  64,
       240, 144, 240, 144, 240,   240, 144, 240,  16, 240,
       240, 144, 240, 144, 144,   224, 144, 224, 144, 224,
       240, 128, 128, 128, 240,   224, 144, 144, 144, 224,
       240, 128, 240, 128, 240,   240, 128, 240, 128, 128 >>

\* ------------------------------------------------------ integer helpers
\* Rust's & | ^ on unsigned integers, bit by bit from the lowest.
RECURSIVE BitAnd(_, _)
BitAnd(a, b) ==
    IF a = 0 \/ b = 0 THEN 0
    ELSE (a % 2) * (b % 2) + 2 * BitAnd(a \div 2, b \div 2)

RECURSIVE BitOr(_, _)
BitOr(a, b) ==
    IF a = 0 THEN b
    ELSE IF b = 0 THEN a
    ELSE (IF (a % 2) + (b % 2) > 0 THEN 1 ELSE 0) + 2 * BitOr(a \div 2, b \div 2)

RECURSIVE BitXor(_, _)
BitXor(a, b) ==
    IF a = 0 THEN b
    ELSE IF b = 0 THEN a
    ELSE (((a % 2) + (b % 2)) % 2) + 2 * BitXor(a \div 2, b \div 2)

\* ---------------------------------------------------------------- state
VARIABLES
    memory,           \* Processor.memory: [u8; MEMORY_SIZE]
    stack,            \* Processor.stack: [u16; STACK_SIZE]
    sp,               \* Processor.sp: u16
    keypad,           \* Processor.keypad: [bool; KEYPAD_SIZE]
    vram,             \* Processor.vram: [[u8; CHIP8_WIDTH]; CHIP8_HEIGHT]
    v,                \* Processor.v: [u8; NUM_REGISTERS]
    i,                \* Processor.i: u16
    pc,               \* Processor.pc: u16
    delay_timer,      \* Processor.delay_timer: u8
    sound_timer,      \* Processor.sound_timer: u8
    cpu_flags,        \* Processor.cpu_flags: u8
    selected_v,       \* Processor.selected_v: u8
    main_pc,          \* where main() stands: "load", "loop" or "aborted"
    tick_result,      \* how the last call of tick ended: "none", "Ok", "panic"
    vram_changed,     \* Output.vram_changed of the last tick
    beep_request,     \* Output.beep_request of the last tick
    opcode,           \* the opcode the last tick fetched (and printed)
    fetch_pc,         \* the address of the last instruction fetched
    calls,            \* history: addresses of the 2nnn not yet returned from
    overflow_checks   \* the build: TRUE when integer overflow panics (debug)

vars == << memory, stack, sp, keypad, vram, v, i, pc, delay_timer, sound_timer,
           cpu_flags, selected_v, main_pc, tick_result, vram_changed,
           beep_request, opcode, fetch_pc, calls, overflow_checks >>

\* The machine as one record: the fields of Processor and the locals of tick.
Self ==
    [ memory |-> memory, stack |-> stack, sp |-> sp, keypad |-> keypad,
      vram |-> vram, v |-> v, i |-> i, pc |-> pc,
      delay_timer |-> delay_timer, sound_timer |-> sound_timer,
      cpu_flags |-> cpu_flags, selected_v |-> selected_v,
      panicked |-> FALSE, beep_request |-> FALSE,
      opcode |-> NO_OPCODE, fetch_pc |-> fetch_pc,
      overflow_checks |-> overflow_checks ]

\* A Rust panic: the call unwinds with the state written so far.
Panic(m) == [m EXCEPT !.panicked = TRUE]

\* --------------------------------------------------- program counter
increment_pc(m) ==
    IF m.pc + 2 > U16_MAX
    THEN IF m.overflow_checks THEN Panic(m)
         ELSE [m EXCEPT !.pc = (m.pc + 2) % (U16_MAX + 1)]
    ELSE [m EXCEPT !.pc = m.pc + 2]

jump(m, addr) == [m EXCEPT !.pc = addr]

\* skip that moves pc by one instruction and one byte.
skip_three_bytes(m) == [m EXCEPT !.pc = m.pc + OPCODE_SIZE + 1]

skip(m) ==
    IF m.pc + 2 * OPCODE_SIZE > U16_MAX
    THEN IF m.overflow_checks THEN Panic(m)
         ELSE [m EXCEPT !.pc = (m.pc + 2 * OPCODE_SIZE) % (U16_MAX + 1)]
    ELSE [m EXCEPT !.pc = m.pc + 2 * OPCODE_SIZE]

\* Runs the rest of a function body unless a panic already unwound it.
AndThenIncrementPc(m) == IF m.panicked THEN m ELSE increment_pc(m)

\* -------------------------------------------------------- exec rules
exec_cls(m) ==
    increment_pc(
        [m EXCEPT !.vram = [r \in 0 .. CHIP8_HEIGHT - 1 |->
                               [c \in 0 .. CHIP8_WIDTH - 1 |-> 0]],
                  !.cpu_flags = BitOr(m.cpu_flags, UPDATE_VRAM_BIT)])

\* self.sp -= 1 underflows at 0: a panic with overflow checks, a wrap to
\* 0xFFFF without; the read of stack[0xFFFF] then panics.
exec_ret(m) ==
    IF m.sp = 0
    THEN IF m.overflow_checks THEN Panic(m)
         ELSE Panic([m EXCEPT !.sp = U16_MAX])
    ELSE IF m.sp - 1 >= STACK_SIZE
         THEN Panic([m EXCEPT !.sp = m.sp - 1])
         ELSE [m EXCEPT !.sp = m.sp - 1, !.pc = m.stack[m.sp - 1]]

exec_jp(m, nnn) == jump(m, nnn)

\* exec_call pushing the address of the call itself.
exec_call_pushes_pc(m, nnn) ==
    IF m.sp >= STACK_SIZE
    THEN Panic(m)
    ELSE jump([m EXCEPT !.stack[m.sp] = m.pc, !.sp = m.sp + 1], nnn)

\* exec_call on a stack without an upper end: the slot sp is written
\* wherever it lies.
exec_call_unchecked(m, nnn) ==
    jump([m EXCEPT !.stack = [s \in (0 .. STACK_SIZE - 1) \cup {m.sp} |->
                                IF s = m.sp THEN m.pc + OPCODE_SIZE
                                ELSE m.stack[s]],
                   !.sp = m.sp + 1],
         nnn)

exec_call(m, nnn) ==
    IF m.sp >= STACK_SIZE
    THEN Panic(m)
    ELSE IF m.pc + OPCODE_SIZE > U16_MAX /\ m.overflow_checks
         THEN Panic(m)
         ELSE jump([m EXCEPT !.stack[m.sp] = (m.pc + OPCODE_SIZE) % (U16_MAX + 1),
                             !.sp = m.sp + 1],
                   nnn)

exec_se_vx_byte(m, x, kk) == IF kk = m.v[x] THEN skip(m) ELSE increment_pc(m)

exec_sne_vx_byte(m, x, kk) == IF kk # m.v[x] THEN skip(m) ELSE increment_pc(m)

exec_se_vx_vy(m, x, y) == IF m.v[x] = m.v[y] THEN skip(m) ELSE increment_pc(m)

exec_ld_vx_byte(m, x, kk) == increment_pc([m EXCEPT !.v[x] = kk])

exec_add_vx_byte(m, x, kk) ==
    increment_pc([m EXCEPT !.v[x] = (kk + m.v[x]) % (U8_MAX + 1)])

exec_ld_vx_vy(m, x, y) == increment_pc([m EXCEPT !.v[x] = m.v[y]])

exec_or_vx_vy(m, x, y) == increment_pc([m EXCEPT !.v[x] = BitOr(m.v[x], m.v[y])])

exec_and_vx_vy(m, x, y) == increment_pc([m EXCEPT !.v[x] = BitAnd(m.v[x], m.v[y])])

exec_xor_vx_vy(m, x, y) == increment_pc([m EXCEPT !.v[x] = BitXor(m.v[x], m.v[y])])

\* The sum is taken from the old registers, VF is written, then Vx.
exec_add_vx_vy(m, x, y) ==
    LET sum == m.v[x] + m.v[y]
        carry == sum > 255
        m1 == [m EXCEPT !.v[15] = IF carry THEN 1 ELSE 0]
    IN  increment_pc([m1 EXCEPT !.v[x] = sum % (U8_MAX + 1)])

\* VF is written first; the subtraction then reads the registers again.
exec_sub_vx_vy(m, x, y) ==
    LET m1 == [m EXCEPT !.v[15] = IF m.v[y] < m.v[x] THEN 1 ELSE 0]
    IN  increment_pc([m1 EXCEPT !.v[x] = (m1.v[x] - m1.v[y]) % (U8_MAX + 1)])

exec_shr_vx_vy(m, x) ==
    LET m1 == [m EXCEPT !.v[15] = BitAnd(m.v[x], 1)]
    IN  increment_pc([m1 EXCEPT !.v[x] = m1.v[x] \div 2])

exec_subn_vx_vy(m, x, y) ==
    LET m1 == [m EXCEPT !.v[15] = IF m.v[x] < m.v[y] THEN 1 ELSE 0]
    IN  increment_pc([m1 EXCEPT !.v[x] = (m1.v[y] - m1.v[x]) % (U8_MAX + 1)])

exec_shl_vx_vy(m, x) ==
    LET m1 == [m EXCEPT !.v[15] = BitAnd(m.v[x], 128) \div 128]
    IN  increment_pc([m1 EXCEPT !.v[x] = (m1.v[x] * 2) % (U8_MAX + 1)])

exec_sne_vx_vy(m, x, y) == IF m.v[x] # m.v[y] THEN skip(m) ELSE increment_pc(m)

exec_ld_i(m, nnn) == increment_pc([m EXCEPT !.i = nnn])

exec_jp_v0(m, nnn) == [m EXCEPT !.pc = nnn + m.v[0]]

\* rng.gen_range(0, 255) draws r from the half-open range [0, 255).
exec_rnd(m, x, kk, r) == increment_pc([m EXCEPT !.v[x] = BitAnd(r, kk)])

\* drw_bits adding the sprite bit to the pixel instead of XORing it.
RECURSIVE drw_bits_adds(_, _, _, _, _)
drw_bits_adds(m, x, row, byte, bit) ==
    IF bit = 8 THEN m
    ELSE LET col == (m.v[x] + bit) % CHIP8_WIDTH
         IN  IF m.i + byte >= MEMORY_SIZE THEN Panic(m)
             ELSE LET color == BitAnd(m.memory[m.i + byte] \div (2 ^ (7 - bit)), 1)
                      m1 == [m EXCEPT !.v[15] =
                                BitOr(m.v[15], BitAnd(color, m.vram[row][col]))]
                      m2 == [m1 EXCEPT !.vram[row][col] =
                                (m1.vram[row][col] + color) % (U8_MAX + 1)]
                  IN  drw_bits_adds(m2, x, row, byte, bit + 1)

\* The inner loop of exec_drw over bit, for the sprite row `byte` drawn on
\* display row `row`; Vx is read again for every bit.
RECURSIVE drw_bits(_, _, _, _, _)
drw_bits(m, x, row, byte, bit) ==
    IF bit = 8 THEN m
    ELSE LET col == (m.v[x] + bit) % CHIP8_WIDTH
         IN  IF m.i + byte >= MEMORY_SIZE THEN Panic(m)
             ELSE LET color == BitAnd(m.memory[m.i + byte] \div (2 ^ (7 - bit)), 1)
                      m1 == [m EXCEPT !.v[15] =
                                BitOr(m.v[15], BitAnd(color, m.vram[row][col]))]
                      m2 == [m1 EXCEPT !.vram[row][col] =
                                BitXor(m1.vram[row][col], color)]
                  IN  drw_bits(m2, x, row, byte, bit + 1)

\* The outer loop of exec_drw over byte; Vy is read once per sprite row.
RECURSIVE drw_rows(_, _, _, _, _)
drw_rows(m, x, y, n, byte) ==
    IF byte >= n \/ m.panicked THEN m
    ELSE LET row == (m.v[y] + byte) % CHIP8_HEIGHT
         IN  drw_rows(drw_bits(m, x, row, byte, 0), x, y, n, byte + 1)

exec_drw(m, x, y, n) ==
    LET m1 == drw_rows([m EXCEPT !.v[15] = 0], x, y, n, 0)
    IN  IF m1.panicked THEN m1
        ELSE increment_pc([m1 EXCEPT !.cpu_flags =
                                        BitOr(m1.cpu_flags, UPDATE_VRAM_BIT)])

exec_skp(m, x) ==
    IF m.v[x] >= KEYPAD_SIZE THEN Panic(m)
    ELSE IF m.keypad[m.v[x]] THEN skip(m) ELSE increment_pc(m)

exec_sknp(m, x) ==
    IF m.v[x] >= KEYPAD_SIZE THEN Panic(m)
    ELSE IF ~m.keypad[m.v[x]] THEN skip(m) ELSE increment_pc(m)

exec_ld_vx_dt(m, x) == increment_pc([m EXCEPT !.v[x] = m.delay_timer])

\* exec_ld_vx_k without its increment_pc.
exec_ld_vx_k_no_advance(m, x) ==
    [m EXCEPT !.cpu_flags = BitOr(m.cpu_flags, WAITING_FOR_INPUT_BIT),
              !.selected_v = x]

exec_ld_vx_k(m, x) ==
    increment_pc([m EXCEPT !.cpu_flags = BitOr(m.cpu_flags, WAITING_FOR_INPUT_BIT),
                           !.selected_v = x])

exec_ld_dt_vx(m, x) == increment_pc([m EXCEPT !.delay_timer = m.v[x]])

exec_ld_st_vx(m, x) == increment_pc([m EXCEPT !.sound_timer = m.v[x]])

\* self.i += Vx overflows u16 above 0xFFFF: a panic with overflow checks,
\* a wrap without.
exec_add_i_vx(m, x) ==
    IF m.i + m.v[x] > U16_MAX /\ m.overflow_checks THEN Panic(m)
    ELSE LET m1 == [m EXCEPT !.i = (m.i + m.v[x]) % (U16_MAX + 1)]
         IN  increment_pc([m1 EXCEPT !.v[15] = IF m1.i > 3840 THEN 1 ELSE 0])

exec_ld_f_vx(m, x) == increment_pc([m EXCEPT !.i = m.v[x] * 5])

\* memory[addr] = value, with Rust's bounds check.
store(m, addr, value) ==
    IF m.panicked THEN m
    ELSE IF addr >= MEMORY_SIZE THEN Panic(m)
    ELSE [m EXCEPT !.memory[addr] = value]

\* exec_ld_b_vx whose tens digit is not reduced below the hundreds.
exec_ld_b_vx_tens_unreduced(m, x) ==
    LET value == m.v[x]
    IN  AndThenIncrementPc(
            store(store(store(m, m.i, value \div 100), m.i + 1, value \div 10),
                  m.i + 2, value % 10))

exec_ld_b_vx(m, x) ==
    LET value == m.v[x]
        hundreds == value \div 100
        tens == (value % 100) \div 10
        ones == value % 10
    IN  AndThenIncrementPc(
            store(store(store(m, m.i, hundreds), m.i + 1, tens), m.i + 2, ones))

RECURSIVE ld_i_vx_loop(_, _, _)
ld_i_vx_loop(m, limit, k) ==
    IF k > limit \/ m.panicked THEN m
    ELSE ld_i_vx_loop(store(m, m.i + k, m.v[k]), limit, k + 1)

\* exec_ld_i_vx that leaves I behind the last byte stored.
exec_ld_i_vx_moves_i(m, x) ==
    LET m1 == ld_i_vx_loop(m, x, 0)
    IN  AndThenIncrementPc(IF m1.panicked THEN m1
                           ELSE [m1 EXCEPT !.i = m1.i + x + 1])

exec_ld_i_vx(m, x) == AndThenIncrementPc(ld_i_vx_loop(m, x, 0))

RECURSIVE ld_vx_i_loop(_, _, _)
ld_vx_i_loop(m, limit, k) ==
    IF k > limit \/ m.panicked THEN m
    ELSE IF m.i + k >= MEMORY_SIZE THEN Panic(m)
    ELSE ld_vx_i_loop([m EXCEPT !.v[k] = m.memory[m.i + k]], limit, k + 1)

exec_ld_vx_i(m, x) == AndThenIncrementPc(ld_vx_i_loop(m, x, 0))

\* --------------------------------------------------------------- tick
\* Whether read_opcode stays inside memory for this pc.
FetchInBounds(p) == p + 1 < MEMORY_SIZE

read_opcode(m) == m.memory[m.pc] * 256 + m.memory[m.pc + 1]

\* The last arm of the match that leaves pc where it is.
exec_unmatched_stalls(m) == m

\* The last arm of the match, (_,_,_,_): a word no other arm names.
exec_unmatched(m) == increment_pc(m)

\* The match of tick on the four nibbles of the opcode; r is the random
\* byte exec_rnd draws.
dispatch(m, op, r) ==
    LET n1 == BitAnd(op, 61440) \div 4096
        x == BitAnd(op, 3840) \div 256
        y == BitAnd(op, 240) \div 16
        n == BitAnd(op, 15)
        kk == BitAnd(op, 255)
        nnn == BitAnd(op, 4095)
    IN  CASE n1 = 0 /\ x = 0 /\ y = 14 /\ n = 0 -> exec_cls(m)
          [] n1 = 0 /\ x = 0 /\ y = 14 /\ n = 14 -> exec_ret(m)
          [] n1 = 1 -> exec_jp(m, nnn)
          [] n1 = 2 -> exec_call(m, nnn)
          [] n1 = 3 -> exec_se_vx_byte(m, x, kk)
          [] n1 = 4 -> exec_sne_vx_byte(m, x, kk)
          [] n1 = 5 -> exec_se_vx_vy(m, x, y)
          [] n1 = 6 -> exec_ld_vx_byte(m, x, kk)
          [] n1 = 7 -> exec_add_vx_byte(m, x, kk)
          [] n1 = 8 /\ n = 0 -> exec_ld_vx_vy(m, x, y)
          [] n1 = 8 /\ n = 1 -> exec_or_vx_vy(m, x, y)
          [] n1 = 8 /\ n = 2 -> exec_and_vx_vy(m, x, y)
          [] n1 = 8 /\ n = 3 -> exec_xor_vx_vy(m, x, y)
          [] n1 = 8 /\ n = 4 -> exec_add_vx_vy(m, x, y)
          [] n1 = 8 /\ n = 5 -> exec_sub_vx_vy(m, x, y)
          [] n1 = 8 /\ n = 6 -> exec_shr_vx_vy(m, x)
          [] n1 = 8 /\ n = 7 -> exec_subn_vx_vy(m, x, y)
          [] n1 = 8 /\ n = 14 -> exec_shl_vx_vy(m, x)
          [] n1 = 9 /\ n = 0 -> exec_sne_vx_vy(m, x, y)
          [] n1 = 10 -> exec_ld_i(m, nnn)
          [] n1 = 11 -> exec_jp_v0(m, nnn)
          [] n1 = 12 -> exec_rnd(m, x, kk, r)
          [] n1 = 13 -> exec_drw(m, x, y, n)
          [] n1 = 14 /\ y = 9 /\ n = 14 -> exec_skp(m, x)
          [] n1 = 14 /\ y = 10 /\ n = 1 -> exec_sknp(m, x)
          [] n1 = 15 /\ y = 0 /\ n = 7 -> exec_ld_vx_dt(m, x)
          [] n1 = 15 /\ y = 0 /\ n = 10 -> exec_ld_vx_k(m, x)
          [] n1 = 15 /\ y = 1 /\ n = 5 -> exec_ld_dt_vx(m, x)
          [] n1 = 15 /\ y = 1 /\ n = 8 -> exec_ld_st_vx(m, x)
          [] n1 = 15 /\ y = 1 /\ n = 14 -> exec_add_i_vx(m, x)
          [] n1 = 15 /\ y = 2 /\ n = 9 -> exec_ld_f_vx(m, x)
          [] n1 = 15 /\ y = 3 /\ n = 3 -> exec_ld_b_vx(m, x)
          [] n1 = 15 /\ y = 5 /\ n = 5 -> exec_ld_i_vx(m, x)
          [] n1 = 15 /\ y = 6 /\ n = 5 -> exec_ld_vx_i(m, x)
          [] OTHER -> exec_unmatched(m)

\* scan_keypad storing the key without clearing the wait flag.
RECURSIVE scan_keypad_keeps_flag(_, _)
scan_keypad_keeps_flag(m, k) ==
    IF k = KEYPAD_SIZE THEN m
    ELSE IF m.keypad[k]
         THEN scan_keypad_keeps_flag([m EXCEPT !.v[m.selected_v] = k], k + 1)
         ELSE scan_keypad_keeps_flag(m, k + 1)

\* The loop of tick over the keypad while the machine waits for a key.
RECURSIVE scan_keypad(_, _)
scan_keypad(m, k) ==
    IF k = KEYPAD_SIZE THEN m
    ELSE IF m.keypad[k]
         THEN scan_keypad([m EXCEPT !.cpu_flags = 0, !.v[m.selected_v] = k], k + 1)
         ELSE scan_keypad(m, k + 1)

\* update_timers asking for a beep on every decrement of the sound timer.
update_timers_beep_always(m) ==
    LET m1 == IF m.delay_timer > 0
              THEN [m EXCEPT !.delay_timer = m.delay_timer - 1] ELSE m
    IN  IF m1.sound_timer > 0
        THEN [m1 EXCEPT !.sound_timer = m1.sound_timer - 1,
                        !.beep_request = TRUE]
        ELSE m1

\* The else branch of tick up to the fetch: both timers, then beep_request.
update_timers(m) ==
    LET m1 == IF m.delay_timer > 0
              THEN [m EXCEPT !.delay_timer = m.delay_timer - 1] ELSE m
    IN  IF m1.sound_timer > 0
        THEN [m1 EXCEPT !.sound_timer = m1.sound_timer - 1,
                        !.beep_request = (m1.sound_timer - 1 = 0)]
        ELSE m1

fetch_execute(m, r) ==
    IF ~FetchInBounds(m.pc) THEN Panic(m)
    ELSE LET op == read_opcode(m)
         IN  dispatch([m EXCEPT !.opcode = op, !.fetch_pc = m.pc], op, r)

\* tick without the reset of cpu_flags after a frame was reported.
tick_keeps_vram_flag(m, snapshot, r) ==
    LET m1 == [m EXCEPT !.keypad = snapshot]
    IN  IF BitAnd(m1.cpu_flags, WAITING_FOR_INPUT_BIT) = 1
        THEN scan_keypad(m1, 0)
        ELSE fetch_execute(update_timers(m1), r)

\* Processor::tick: the machine after the call, panicked or not.
tick(m, snapshot, r) ==
    LET m1 == [m EXCEPT !.keypad = snapshot]
        m2 == IF BitAnd(m1.cpu_flags, UPDATE_VRAM_BIT) = UPDATE_VRAM_BIT
              THEN [m1 EXCEPT !.cpu_flags = 0] ELSE m1
    IN  IF BitAnd(m2.cpu_flags, WAITING_FOR_INPUT_BIT) = 1
        THEN scan_keypad(m2, 0)
        ELSE fetch_execute(update_timers(m2), r)

\* Output.vram_changed as tick computes it on return.
output_vram_changed(m) ==
    BitAnd(m.cpu_flags, UPDATE_VRAM_BIT) = UPDATE_VRAM_BIT

\* ------------------------------------------------- new, load, main
\* Processor::new: the font in low memory, 0xff in every other byte and
\* in every stack slot.
new_memory ==
    [a \in 0 .. MEMORY_SIZE - 1 |->
        IF a >= FONT_AREA_START /\ a < FONT_AREA_END
        THEN FONTSET[a - FONT_AREA_START + 1] ELSE 255]

new_stack == [s \in 0 .. STACK_SIZE - 1 |-> 255]

Init ==
    /\ memory = new_memory
    /\ stack = new_stack
    /\ sp = 0
    /\ keypad = [k \in 0 .. KEYPAD_SIZE - 1 |-> FALSE]
    /\ vram = [r \in 0 .. CHIP8_HEIGHT - 1 |-> [c \in 0 .. CHIP8_WIDTH - 1 |-> 0]]
    /\ v = [r \in 0 .. NUM_REGISTERS - 1 |-> 0]
    /\ i = 0
    /\ pc = PROGRAM_AREA_START
    /\ delay_timer = 0
    /\ sound_timer = 0
    /\ cpu_flags = 0
    /\ selected_v = 0
    /\ main_pc = "load"
    /\ tick_result = "none"
    /\ vram_changed = FALSE
    /\ beep_request = FALSE
    /\ opcode = NO_OPCODE
    /\ fetch_pc = NO_OPCODE
    /\ calls = << >>
    /\ overflow_checks \in BOOLEAN

\* Whether Processor::load accepts a game of this length.
load_fits(len) == len <= PROGRAM_AREA_END - PROGRAM_AREA_START

\* The memory after Processor::load copied the game (a sequence of bytes).
load_memory(mem, game) ==
    [a \in 0 .. MEMORY_SIZE - 1 |->
        IF a >= PROGRAM_AREA_START /\ a < PROGRAM_AREA_START + Len(game)
        THEN game[a - PROGRAM_AREA_START + 1] ELSE mem[a]]

\* main: processor.load(&cartridge_driver.get()), for a game out of Games.
Load(Games) ==
    /\ main_pc = "load"
    /\ \E game \in Games :
          IF load_fits(Len(game))
          THEN /\ memory' = load_memory(memory, game)
               /\ main_pc' = "loop"
          ELSE /\ memory' = memory
               /\ main_pc' = "aborted"
    /\ UNCHANGED << stack, sp, keypad, vram, v, i, pc, delay_timer, sound_timer,
                    cpu_flags, selected_v, tick_result, vram_changed,
                    beep_request, opcode, fetch_pc, calls, overflow_checks >>

\* Whether the next tick executes Cxkk, the one rule that draws a random byte.
NextIsRnd ==
    /\ BitAnd(cpu_flags, WAITING_FOR_INPUT_BIT) = 0
    /\ FetchInBounds(pc)
    /\ memory[pc] \div 16 = 12

\* What gen_range(0, 255) can return.
RandomDraws == 0 .. 254

\* main: one turn of the loop, processor.tick(keypad) on a snapshot the
\* input driver polled out of Snapshots.  A panic ends the process.
Tick(Snapshots) ==
    /\ main_pc = "loop"
    /\ \E snapshot \in Snapshots :
       \E r \in (IF NextIsRnd THEN RandomDraws ELSE {0}) :
       \E m \in {tick(Self, snapshot, r)} :
              /\ memory' = m.memory
              /\ stack' = m.stack
              /\ sp' = m.sp
              /\ keypad' = m.keypad
              /\ vram' = m.vram
              /\ v' = m.v
              /\ i' = m.i
              /\ pc' = m.pc
              /\ delay_timer' = m.delay_timer
              /\ sound_timer' = m.sound_timer
              /\ cpu_flags' = m.cpu_flags
              /\ selected_v' = m.selected_v
              /\ opcode' = m.opcode
              /\ fetch_pc' = m.fetch_pc
              /\ calls' = IF m.panicked \/ m.opcode = NO_OPCODE THEN calls
                          ELSE IF m.opcode \div 4096 = 2
                               THEN Append(calls, m.fetch_pc)
                          ELSE IF m.opcode = 238 /\ calls # << >>
                               THEN SubSeq(calls, 1, Len(calls) - 1)
                          ELSE calls
              /\ tick_result' = IF m.panicked THEN "panic" ELSE "Ok"
              /\ main_pc' = IF m.panicked THEN "aborted" ELSE "loop"
              /\ vram_changed' = (~m.panicked /\ output_vram_changed(m))
              /\ beep_request' = (~m.panicked /\ m.beep_request)
    /\ UNCHANGED overflow_checks

\* ------------------------------------------------------------- inputs
\* A keypad snapshot with exactly the keys of the set pressed.
Snapshot(pressed) == [k \in 0 .. KEYPAD_SIZE - 1 |-> k \in pressed]

NoKeys == Snapshot({})

\* The two bytes of an instruction word, high byte first.
Op(w) == << w \div 256, w % 256 >>

\* n zero bytes.
Zeros(n) == [k \in 1 .. n |-> 0]

\* The game padded with zero bytes so that its next byte lands at addr.
PadTo(game, addr) == game \o Zeros(addr - PROGRAM_AREA_START - Len(game))

\* 1nnn to its own address: the usual way a game halts.
HaltAt(addr) == Op(4096 + addr)

\* Timer values the games set, 0 .. MaxTimer.
MaxTimer == 3

\* Vt = t; delay = sound = t; wait for a key into Vx; V0 += 1; halt.
\* (6Att FA15 FA18 Fx0A 7001 120A)
KeyGame(x, t) ==
    Op(24576 + 10 * 256 + t) \o Op(64021) \o Op(64024)
      \o Op(61450 + x * 256) \o Op(28673) \o HaltAt(PROGRAM_AREA_START + 10)

KeyGames == { KeyGame(x, t) : x \in 0 .. NUM_REGISTERS - 1, t \in 0 .. MaxTimer }

KeySnapshots == { Snapshot(s) : s \in SUBSET {0, 7, 15} }

NextKey == Load(KeyGames) \/ Tick(KeySnapshots)

SpecKey == Init /\ [][NextKey]_vars

\* Snapshots for the games that never read the keypad.
FewSnapshots == { NoKeys, Snapshot({7}) }

\* 1300 / at 0x300: 2400, halt / at 0x400: 00EE.
CallRetGame ==
    PadTo(PadTo(Op(4864), 768) \o Op(9216) \o HaltAt(770), 1024) \o Op(238)

\* Nesting depth of the calls the games make, 1 .. MaxDepth.
MaxDepth == 3

\* The subroutines k .. d of NestedGame, each 4 bytes from 0x204 on: a call
\* of the next one and a return; the last one only returns.
RECURSIVE Subroutines(_, _)
Subroutines(k, d) ==
    IF k = d THEN Op(238)
    ELSE Op(8192 + PROGRAM_AREA_START + 4 + 4 * k) \o Op(238) \o Subroutines(k + 1, d)

\* 2204, halt, then d nested subroutines.
NestedGame(d) ==
    Op(8192 + PROGRAM_AREA_START + 4) \o HaltAt(PROGRAM_AREA_START + 2)
      \o Subroutines(1, d)

\* 2206, 2206, halt / at 0x206: 00EE: one subroutine called from two places.
TwoCallsGame ==
    Op(8192 + PROGRAM_AREA_START + 6) \o Op(8192 + PROGRAM_AREA_START + 6)
      \o HaltAt(PROGRAM_AREA_START + 4) \o Op(238)

\* 2200: a subroutine that calls itself.
RecurseGame == Op(8192 + PROGRAM_AREA_START)

\* 00EE as the first instruction.
RetFirstGame == Op(238)

\* 1nnn to the last bytes of memory.
RunOffGame(addr) == Op(4096 + addr)

StackGames ==
    { CallRetGame, TwoCallsGame, RecurseGame, RetFirstGame,
      RunOffGame(MEMORY_SIZE - 2), RunOffGame(MEMORY_SIZE - 1) }
      \cup { NestedGame(d) : d \in 1 .. MaxDepth }

NextStack == Load(StackGames) \/ Tick(FewSnapshots)

SpecStack == Init /\ [][NextStack]_vars

\* A sprite of 15 rows with on bits in every row, and an empty one.
SolidSprite ==
    << 240, 144, 144, 144, 240, 129, 255, 1, 128, 60, 195, 85, 170, 24, 126 >>

EmptySprite == [k \in 1 .. 15 |-> 0]

\* 00E0, I = 0x20E, Vx = vx, Vy = vy, Dxyn, Dxyn, halt, then the sprite.
DrawGame(x, y, n, vx, vy, sprite) ==
    Op(224) \o Op(40960 + PROGRAM_AREA_START + 14)
      \o Op(24576 + x * 256 + vx) \o Op(24576 + y * 256 + vy)
      \o Op(53248 + x * 256 + y * 16 + n) \o Op(53248 + x * 256 + y * 16 + n)
      \o HaltAt(PROGRAM_AREA_START + 12) \o sprite

DrawGames ==
    { DrawGame(x, y, n, p[1], p[2], sprite) :
        x \in {0, 1, 15}, y \in {0, 2, 15}, n \in {0, 1, 5, 15},
        p \in { << 0, 0 >>, << 60, 30 >> }, sprite \in {SolidSprite, EmptySprite} }

NextDraw == Load(DrawGames) \/ Tick(FewSnapshots)

SpecDraw == Init /\ [][NextDraw]_vars

\* Vx = a, Vy = b, 8xyK, halt.
AluGame(x, y, a, b, k) ==
    Op(24576 + x * 256 + a) \o Op(24576 + y * 256 + b)
      \o Op(32768 + x * 256 + y * 16 + k) \o HaltAt(PROGRAM_AREA_START + 6)

AluGames ==
    { AluGame(x, y, a, b, k) :
        x \in {0, 1, 15}, y \in {0, 1, 15}, a \in {5, 100, 200, 255},
        b \in {5, 100, 200, 255}, k \in {4, 5, 7} }

NextAlu == Load(AluGames) \/ Tick(FewSnapshots)

SpecAlu == Init /\ [][NextAlu]_vars

\* Instruction words that no arm of the match in tick names: 8xy8..8xyD and
\* 8xyF, 9xy1..9xyF, Exkk and Fxkk with an unlisted kk.
UnmatchedWords ==
    { 32768 + x * 256 + y * 16 + n :
        x \in {0, 15}, y \in {0, 15}, n \in (8 .. 13) \cup {15} }
      \cup { 36864 + x * 256 + y * 16 + n :
               x \in {0, 15}, y \in {0, 15}, n \in 1 .. 15 }
      \cup { 57344 + x * 256 + kk :
               x \in {0, 15}, kk \in {0, 145, 159, 162, 174, 255} }
      \cup { 61440 + x * 256 + kk :
               x \in {0, 15}, kk \in {0, 8, 22, 31, 86, 102, 117, 133, 255} }

\* VA = 3, delay = VA, draw one font row at (0, 0), the word w, halt.
\* (6A03 FA15 D001 w 1208)
UnmatchedGame(w) ==
    Op(27139) \o Op(64021) \o Op(53249) \o Op(w)
      \o HaltAt(PROGRAM_AREA_START + 8)

UnmatchedGames == { UnmatchedGame(w) : w \in UnmatchedWords }

NextUnmatched == Load(UnmatchedGames) \/ Tick(FewSnapshots)

SpecUnmatched == Init /\ [][NextUnmatched]_vars

\* The longest game load accepts, 0xDFF bytes (1200 and zeros), and games
\* one byte longer and as long as the whole memory.
BiggestGame ==
    HaltAt(PROGRAM_AREA_START)
      \o Zeros(PROGRAM_AREA_END - PROGRAM_AREA_START - OPCODE_SIZE)

TooBigGames ==
    { Zeros(PROGRAM_AREA_END - PROGRAM_AREA_START + 1), Zeros(MEMORY_SIZE) }

LoadGames == {BiggestGame} \cup TooBigGames \cup StackGames

NextLoad == Load(LoadGames) \/ Tick(FewSnapshots)

SpecLoad == Init /\ [][NextLoad]_vars

\* Draw a font glyph, wait for a key into Vx, clear, V0 += 1, draw, halt.
\* (D005 Fx0A 00E0 7001 D005 120A)
VramGame(x) ==
    Op(53253) \o Op(61450 + x * 256) \o Op(224) \o Op(28673) \o Op(53253)
      \o HaltAt(PROGRAM_AREA_START + 10)

VramGames == { VramGame(x) : x \in {0, 5, 15} } \cup DrawGames

NextVram == Load(VramGames) \/ Tick(FewSnapshots)

SpecVram == Init /\ [][NextVram]_vars

\* 0nnn, halt.
LegacyGame(nnn) == Op(nnn) \o HaltAt(PROGRAM_AREA_START + 2)

LegacyGames ==
    { LegacyGame(nnn) : nnn \in {0, 225, PROGRAM_AREA_START + 4, 768, 4095} }
      \cup StackGames

NextLegacy == Load(LegacyGames) \/ Tick(FewSnapshots)

SpecLegacy == Init /\ [][NextLegacy]_vars

\* The games of the shifts: Vx = a, Vy = b, 8xy6 or 8xyE, halt.
ShiftGames ==
    { AluGame(x, y, a, b, k) :
        x \in {0, 1, 15}, y \in {0, 1, 15}, a \in {5, 100, 200, 255},
        b \in {5, 200}, k \in {6, 14} }

NextShift == Load(ShiftGames) \/ Tick(FewSnapshots)

SpecShift == Init /\ [][NextShift]_vars

\* I = nnn, Vx = a, Fx1E, halt.
IndexGame(x, nnn, a) ==
    Op(40960 + nnn) \o Op(24576 + x * 256 + a) \o Op(61470 + x * 256)
      \o HaltAt(PROGRAM_AREA_START + 6)

\* I = 0xFFF, V0 = 255, then F01E 243 times, counted in V1, and halt: I
\* runs over the top of u16. (AFFF 60FF F01E 7101 31F3 1204 120C)
IndexLoopGame ==
    Op(40960 + 4095) \o Op(24576 + 255) \o Op(61470) \o Op(28929)
      \o Op(12787) \o Op(4096 + PROGRAM_AREA_START + 4)
      \o HaltAt(PROGRAM_AREA_START + 12)

IndexGames ==
    { IndexGame(x, nnn, a) :
        x \in {0, 15}, nnn \in {0, 3839, 3840, 4095}, a \in {0, 1, 255} }
      \cup {IndexLoopGame}

NextIndex == Load(IndexGames) \/ Tick(FewSnapshots)

SpecIndex == Init /\ [][NextIndex]_vars

\* Cxkk, halt.
RndGame(x, kk) == Op(49152 + x * 256 + kk) \o HaltAt(PROGRAM_AREA_START + 2)

RndGames == { RndGame(x, kk) : x \in {0, 15}, kk \in {0, 15, 255} }

NextRnd == Load(RndGames) \/ Tick(FewSnapshots)

SpecRnd == Init /\ [][NextRnd]_vars

\* Vx = a, Ex9E or ExA1 (kk = 0x9E or 0xA1), halt, halt.
SkipKeyGame(x, a, kk) ==
    Op(24576 + x * 256 + a) \o Op(57344 + x * 256 + kk)
      \o HaltAt(PROGRAM_AREA_START + 4) \o HaltAt(PROGRAM_AREA_START + 6)

SkipKeyGames ==
    { SkipKeyGame(x, a, kk) :
        x \in {0, 15}, a \in {0, 7, KEYPAD_SIZE - 1, KEYPAD_SIZE, U8_MAX},
        kk \in {158, 161} }

NextSkipKey == Load(SkipKeyGames) \/ Tick(KeySnapshots)

SpecSkipKey == Init /\ [][NextSkipKey]_vars

\* V0 = a, V1 = b, the skip word w, halt, halt.
SkipGame(w, a, b) ==
    Op(24576 + a) \o Op(24832 + b) \o Op(w)
      \o HaltAt(PROGRAM_AREA_START + 6) \o HaltAt(PROGRAM_AREA_START + 8)

\* 3007, 4007, 5010, 5013, 9010, E09E, E0A1 on V0, V1 in {7, 9}.
SkipGames ==
    { SkipGame(w, a, b) :
        w \in {12295, 16391, 20496, 20499, 36880, 57502, 57505},
        a \in {7, 9}, b \in {7, 9} }

\* One instruction of every rule that advances, in a row, then halt.
\* (A300 6105 8010 8011 8012 8013 F007 F115 F118 F129 A300 F133 F155 F165
\*  F11E C00F 7001 00E0 D011 8014 8015 8016 8017 801E F00A 1232)
StraightGame ==
    Op(41728) \o Op(24837) \o Op(32784) \o Op(32785) \o Op(32786)
      \o Op(32787) \o Op(61447) \o Op(61717) \o Op(61720) \o Op(61737)
      \o Op(41728) \o Op(61747) \o Op(61781) \o Op(61797) \o Op(61726)
      \o Op(49167) \o Op(28673) \o Op(224) \o Op(53265) \o Op(32788)
      \o Op(32789) \o Op(32790) \o Op(32791) \o Op(32798) \o Op(61450)
      \o HaltAt(PROGRAM_AREA_START + 50)

PcGames == SkipGames \cup {StraightGame} \cup StackGames

NextPc == Load(PcGames) \/ Tick(FewSnapshots)

SpecPc == Init /\ [][NextPc]_vars

\* I = nnn, Vx = a, Fx33, halt.
BcdGame(x, nnn, a) ==
    Op(40960 + nnn) \o Op(24576 + x * 256 + a) \o Op(61491 + x * 256)
      \o HaltAt(PROGRAM_AREA_START + 6)

\* Every byte through V0 at 0x300; sample bytes through VF at the last
\* three bytes of memory, and one byte and two bytes further.
BcdGames ==
    { BcdGame(0, 768, a) : a \in 0 .. U8_MAX }
      \cup { BcdGame(15, nnn, a) :
               nnn \in MEMORY_SIZE - 3 .. MEMORY_SIZE - 1,
               a \in {0, 9, 10, 99, 100, 199, 200, U8_MAX} }

NextBcd == Load(BcdGames) \/ Tick(FewSnapshots)

SpecBcd == Init /\ [][NextBcd]_vars

\* V0 = 0x11, V1 = 0x22, VF = 0x33, I = nnn, the words w1 and w2, halt.
StoreLoadGame(nnn, w1, w2) ==
    Op(24593) \o Op(24866) \o Op(28467) \o Op(40960 + nnn) \o Op(w1) \o Op(w2)
      \o HaltAt(PROGRAM_AREA_START + 12)

\* Fx55 then Fx65 and Fx65 then Fx55, on the font, on unloaded memory, on
\* the last 16 bytes of memory and 8 bytes further.
StoreLoadGames ==
    { StoreLoadGame(nnn, 61525 + x * 256, 61541 + x * 256) :
        nnn \in {0, 768, MEMORY_SIZE - 16, MEMORY_SIZE - 8}, x \in {0, 1, 7, 15} }
      \cup { StoreLoadGame(nnn, 61541 + x * 256, 61525 + x * 256) :
               nnn \in {0, 768, MEMORY_SIZE - 16, MEMORY_SIZE - 8},
               x \in {0, 1, 7, 15} }

NextStoreLoad == Load(StoreLoadGames) \/ Tick(FewSnapshots)

SpecStoreLoad == Init /\ [][NextStoreLoad]_vars

\* One game of every kind.
Games ==
    StackGames
      \cup { KeyGame(0, 1), AluGame(0, 1, 200, 100, 4),
              DrawGame(0, 1, 5, 60, 30, SolidSprite) }

Next == Load(Games) \/ Tick(FewSnapshots)

Spec == Init /\ [][Next]_vars

\* ------------------------------------------------ notions of the claims
\* The keys a snapshot holds pressed.
Pressed(kp) == { k \in 0 .. KEYPAD_SIZE - 1 : kp[k] }

WaitFlag(flags) == BitAnd(flags, WAITING_FOR_INPUT_BIT) = 1

\* Whether the tick that starts in this state is spent waiting for a key.
Waiting ==
    WaitFlag(IF BitAnd(cpu_flags, UPDATE_VRAM_BIT) = UPDATE_VRAM_BIT
             THEN 0 ELSE cpu_flags)

\* The instruction word stored at an address.
WordAt(mem, a) == mem[a] * 256 + mem[a + 1]

\* The nibbles of an instruction word.
N1(op) == op \div 4096
NX(op) == (op \div 256) % 16
NY(op) == (op \div 16) % 16
NN(op) == op % 16
KK(op) == op % 256
NNN(op) == op % 4096

IsLdVxK(op) == op # NO_OPCODE /\ N1(op) = 15 /\ KK(op) = 10
IsLdDtVx(op) == op # NO_OPCODE /\ N1(op) = 15 /\ KK(op) = 21
IsLdStVx(op) == op # NO_OPCODE /\ N1(op) = 15 /\ KK(op) = 24

Decremented(t) == IF t > 0 THEN t - 1 ELSE 0

OtherRegistersKept(x) ==
    \A r \in 0 .. NUM_REGISTERS - 1 : r # x => v'[r] = v[r]

\* ------------------------------------------------------------- claims
\* C1: every tick that returns decrements each nonzero timer by exactly 1
\* and leaves a zero timer at 0, also a tick spent waiting for a key (a
\* tick that executes Fx15 or Fx18 then loads that timer from Vx).
C1_TimersDecrementEveryTick ==
    [][(main_pc = "loop" /\ tick_result' = "Ok") =>
          /\ (~IsLdDtVx(opcode') => delay_timer' = Decremented(delay_timer))
          /\ (~IsLdStVx(opcode') => sound_timer' = Decremented(sound_timer))]_vars

\* C2: a tick spent waiting whose snapshot has pressed keys stores the
\* smallest pressed key index in the target register.
C2_SmallestPressedKeyStored ==
    [][(main_pc = "loop" /\ Waiting /\ Pressed(keypad') # {}) =>
          \A k \in Pressed(keypad') : v'[selected_v] <= k]_vars

\* C3: a tick spent waiting whose snapshot has a key pressed returns Ok,
\* stores a pressed key index (the pressed key when there is one) in the
\* target register of the pending Fx0A, clears the wait flag and fetches
\* nothing: pc stays at the address following the Fx0A, and memory, stack,
\* stack pointer, I, frame buffer and the other registers are kept.  A
\* tick that does not start waiting fetches the instruction at pc, so the
\* tick after the key executes the instruction following the Fx0A.
C3_KeyTickThenFetch ==
    [][main_pc = "loop" =>
          /\ (Waiting /\ Pressed(keypad') # {}) =>
                /\ tick_result' = "Ok"
                /\ v'[selected_v] \in Pressed(keypad')
                /\ OtherRegistersKept(selected_v)
                /\ ~WaitFlag(cpu_flags')
                /\ opcode' = NO_OPCODE
                /\ fetch_pc' = fetch_pc
                /\ IsLdVxK(WordAt(memory, fetch_pc))
                /\ NX(WordAt(memory, fetch_pc)) = selected_v
                /\ pc = fetch_pc + 2
                /\ pc' = pc
                /\ << memory', stack', sp', i', vram' >>
                      = << memory, stack, sp, i, vram >>
          /\ (~Waiting /\ FetchInBounds(pc)) =>
                /\ opcode' = WordAt(memory, pc)
                /\ fetch_pc' = pc]_vars

\* C3 witness: key 7 alone was stored in V0 by F00A at 0x206 and the next
\* tick executed the 7001 that follows it.
C3_Witness ==
    /\ opcode = 28673
    /\ fetch_pc = PROGRAM_AREA_START + 8
    /\ WordAt(memory, PROGRAM_AREA_START + 6) = 61450
    /\ v[0] = 8
    /\ tick_result = "Ok"

\* C4: the tick that executes Fx0A advances pc by 2, sets the wait flag
\* and records x; every tick that starts waiting and gets an all-false
\* snapshot returns Ok still waiting, fetches nothing and keeps pc, V0..VF,
\* I, memory, stack, stack pointer and frame buffer.
C4_WaitKeepsState ==
    [][main_pc = "loop" =>
          /\ (IsLdVxK(opcode') /\ tick_result' = "Ok") =>
                /\ fetch_pc' = pc
                /\ pc' = pc + 2
                /\ WaitFlag(cpu_flags')
                /\ selected_v' = NX(opcode')
          /\ (Waiting /\ keypad' = NoKeys) =>
                /\ tick_result' = "Ok"
                /\ WaitFlag(cpu_flags')
                /\ opcode' = NO_OPCODE
                /\ << pc', v', i', memory', stack', sp', vram', selected_v' >>
                      = << pc, v, i, memory, stack, sp, vram, selected_v >>]_vars

\* C4 witness: the machine waits for V5 after a tick that fetched nothing
\* and got no key.
C4_Witness ==
    /\ WaitFlag(cpu_flags)
    /\ opcode = NO_OPCODE
    /\ keypad = NoKeys
    /\ selected_v = 5
    /\ pc = PROGRAM_AREA_START + 8
    /\ tick_result = "Ok"

\* C9: a tick that returns asks for a beep exactly when it ran the timer
\* decrement (it did not start waiting) with the sound timer at 1.
C9_BeepExactlyOnOneToZero ==
    [][(main_pc = "loop" /\ tick_result' = "Ok") =>
          (beep_request' <=> (~Waiting /\ sound_timer = 1))]_vars

\* C9 witness: FA18 set the sound timer to 1 and the next tick asked for
\* the beep.
C9_Witness ==
    /\ beep_request
    /\ sound_timer = 0
    /\ fetch_pc = PROGRAM_AREA_START + 6
    /\ WordAt(memory, PROGRAM_AREA_START + 4) = 64024
    /\ v[10] = 1

\* C5: no call of tick ends in a panic: a fatal condition (2nnn on a full
\* stack, 00EE on an empty one, a fetch beyond memory) comes back to the
\* host as a value.
C5_TickNeverPanics == tick_result \in {"none", "Ok", "Err"}

\* C10: a tick executing 2nnn at address a with fewer than 16 entries on
\* the stack writes a + 2 into slot sp, increments sp and sets pc = nnn; a
\* tick executing 00EE sets pc to the address after the latest call not yet
\* returned from, decrements sp and keeps the slots; sp is the number of
\* calls not yet returned from, so returns come in last-in-first-out order
\* and a return restores the sp its call found.
C10_CallRetRoundTrip ==
    [][(main_pc = "loop" /\ tick_result' = "Ok" /\ opcode' # NO_OPCODE) =>
          /\ N1(opcode') = 2 =>
                /\ sp < STACK_SIZE
                /\ fetch_pc' = pc
                /\ stack' = [stack EXCEPT ![sp] = pc + 2]
                /\ sp' = sp + 1
                /\ pc' = NNN(opcode')
          /\ opcode' = 238 =>
                /\ sp > 0
                /\ calls # << >>
                /\ pc' = calls[Len(calls)] + 2
                /\ sp' = sp - 1
                /\ stack' = stack
          /\ sp' = Len(calls')]_vars

\* C10 witness: CALL at 0x300 to 0x400, then RET at 0x400 came back to 0x302
\* with the stack empty again.
C10_Witness ==
    /\ opcode = 238
    /\ fetch_pc = 1024
    /\ pc = 770
    /\ sp = 0
    /\ stack[0] = 770
    /\ tick_result = "Ok"

\* The frame buffer with every pixel off.
BlankVram == [r \in 0 .. CHIP8_HEIGHT - 1 |-> [c \in 0 .. CHIP8_WIDTH - 1 |-> 0]]

\* The last tick returned after executing the Dxyn stored at this address.
DrewAt(a) ==
    /\ tick_result = "Ok"
    /\ opcode # NO_OPCODE
    /\ N1(opcode) = 13
    /\ fetch_pc = a

\* Whether the n sprite rows at I hold an on bit.
SpriteHasOnBit(n) == \E r \in 0 .. n - 1 : memory[i + r] # 0

\* C6: in a game that clears the display and executes the same Dxyn twice
\* (at 0x208 and 0x20A, I and the sprite untouched), VF is 0 after the
\* first draw; after the second the frame buffer is all-off again and VF
\* is 1 when the sprite has an on bit.
C6_DrawTwiceRestoresBlank ==
    /\ DrewAt(PROGRAM_AREA_START + 8) => v[15] = 0
    /\ DrewAt(PROGRAM_AREA_START + 10) =>
          /\ vram = BlankVram
          /\ SpriteHasOnBit(NN(opcode)) => v[15] = 1

\* C7: 8xy5 sets VF = 1 exactly when old Vx >= old Vy and Vx to
\* (old Vx - old Vy) mod 256; 8xy7 sets VF = 1 exactly when old Vy >= old Vx
\* and Vx to (old Vy - old Vx) mod 256 (Vx for x other than F, the flag
\* register itself); both advance pc by 2.
C7_SubFlagsAndDifference ==
    [][(main_pc = "loop" /\ tick_result' = "Ok" /\ opcode' # NO_OPCODE
          /\ N1(opcode') = 8) =>
          LET x == NX(opcode')
              y == NY(opcode')
          IN  /\ NN(opcode') = 5 =>
                    /\ v'[15] = (IF v[x] >= v[y] THEN 1 ELSE 0)
                    /\ x # 15 => v'[x] = (v[x] - v[y]) % 256
                    /\ pc' = pc + 2
              /\ NN(opcode') = 7 =>
                    /\ v'[15] = (IF v[y] >= v[x] THEN 1 ELSE 0)
                    /\ x # 15 => v'[x] = (v[y] - v[x]) % 256
                    /\ pc' = pc + 2]_vars

\* C8: for all x and y, 8xy4 leaves VF = 1 if old Vx + old Vy > 255 and 0
\* otherwise, Vx = (old Vx + old Vy) mod 256 for x other than F, and
\* advances pc by 2.
C8_AddCarryAndSum ==
    [][(main_pc = "loop" /\ tick_result' = "Ok" /\ opcode' # NO_OPCODE
          /\ N1(opcode') = 8 /\ NN(opcode') = 4) =>
          LET x == NX(opcode')
              y == NY(opcode')
          IN  /\ v'[15] = (IF v[x] + v[y] > 255 THEN 1 ELSE 0)
              /\ x # 15 => v'[x] = (v[x] + v[y]) % 256
              /\ pc' = pc + 2]_vars

\* The instruction words the rules of the table leave out in the families
\* that look at the later nibbles: 8xy8..8xyD, 8xyF, 9xy1..9xyF, Exkk with
\* kk not in {9E, A1}, Fxkk with kk not in {07, 0A, 15, 18, 1E, 29, 33, 55,
\* 65}.
IsUnmatched(op) ==
    \/ N1(op) = 8 /\ NN(op) \in (8 .. 13) \cup {15}
    \/ N1(op) = 9 /\ NN(op) # 0
    \/ N1(op) = 14 /\ KK(op) \notin {158, 161}
    \/ N1(op) = 15 /\ KK(op) \notin {7, 10, 21, 24, 30, 41, 51, 85, 101}

SpriteBit(r, b) == (memory[i + r] \div 2 ^ (7 - b)) % 2

\* The sprite bit that lands on a pixel when the sprite of n rows is put
\* at column vx and row vy and wraps around the display; 0 where none does.
SpriteAt(row, col, vx, vy, n) ==
    LET r == (row + U8_MAX + 1 - vy) % CHIP8_HEIGHT
        b == (col + U8_MAX + 1 - vx) % CHIP8_WIDTH
    IN  IF r < n /\ b < 8 THEN SpriteBit(r, b) ELSE 0

\* C12: Dxyn XORs bit (7 - b) of memory[I + r] into the pixel at row
\* (Vy + r) mod 32 and column (Vx + b) mod 64, Vx and Vy being the register
\* values at the start of the instruction; VF ends as 1 if a pixel went
\* from on to off and as 0 otherwise; pc advances by 2.
C12_DrawXorsWithWrap ==
    [][(main_pc = "loop" /\ tick_result' = "Ok" /\ opcode' # NO_OPCODE
          /\ N1(opcode') = 13) =>
          LET vx == v[NX(opcode')]
              vy == v[NY(opcode')]
              n == NN(opcode')
          IN  /\ vram' = [row \in 0 .. CHIP8_HEIGHT - 1 |->
                            [col \in 0 .. CHIP8_WIDTH - 1 |->
                               (vram[row][col] + SpriteAt(row, col, vx, vy, n)) % 2]]
              /\ v'[15] = (IF \E row \in 0 .. CHIP8_HEIGHT - 1 :
                                \E col \in 0 .. CHIP8_WIDTH - 1 :
                                   /\ SpriteAt(row, col, vx, vy, n) = 1
                                   /\ vram[row][col] = 1
                           THEN 1 ELSE 0)
              /\ pc' = pc + 2]_vars

\* C13: the state Processor::new produces has pc = 0x200, the 80 font
\* bytes in low memory and everything else zero: every memory byte outside
\* the font, the 16 stack slots, the stack pointer, V0..VF, I, both timers,
\* the keypad latch, every pixel and the wait flag.
C13_NewZeroesAllButFont ==
    main_pc = "load" =>
        /\ pc = PROGRAM_AREA_START
        /\ \A a \in FONT_AREA_START .. FONT_AREA_END - 1 :
              memory[a] = FONTSET[a - FONT_AREA_START + 1]
        /\ \A a \in FONT_AREA_END .. MEMORY_SIZE - 1 : memory[a] = 0
        /\ \A s \in 0 .. STACK_SIZE - 1 : stack[s] = 0
        /\ sp = 0
        /\ \A r \in 0 .. NUM_REGISTERS - 1 : v[r] = 0
        /\ i = 0
        /\ delay_timer = 0
        /\ sound_timer = 0
        /\ keypad = NoKeys
        /\ vram = BlankVram
        /\ ~WaitFlag(cpu_flags)

\* C14: load comes back to its caller also for a program longer than 0xDFF
\* bytes, with a failure the caller can see, and then no memory byte and no
\* other field of the machine differs from before the call.
C14_TooLargeLoadReported ==
    [][main_pc = "load" =>
          /\ main_pc' # "aborted"
          /\ main_pc' # "loop" =>
                << memory', stack', sp', keypad', vram', v', i', pc',
                   delay_timer', sound_timer', cpu_flags', selected_v' >>
                   = << memory, stack, sp, keypad, vram, v, i, pc,
                        delay_timer, sound_timer, cpu_flags, selected_v >>]_vars

\* The tick executed 00E0 or Dxyn.
IsClsOrDrw(op) == op # NO_OPCODE /\ (op = 224 \/ N1(op) = 13)

\* C15: a tick that returns reports vram_changed = true exactly when the
\* instruction it executed is 00E0 or Dxyn; a tick that executes another
\* instruction or is spent waiting for a key keeps the frame buffer and
\* reports false, whatever the tick before reported.
C15_VramChangedOnlyByClsAndDrw ==
    [][(main_pc = "loop" /\ tick_result' = "Ok") =>
          /\ vram_changed' <=> IsClsOrDrw(opcode')
          /\ ~IsClsOrDrw(opcode') => vram' = vram]_vars

\* C15 witness: after the draw at 0x200 was reported, the tick that
\* executed F00A and a tick spent waiting reported no change, the glyph
\* still on the display.
C15_Witness ==
    /\ opcode = NO_OPCODE
    /\ WaitFlag(cpu_flags)
    /\ fetch_pc = PROGRAM_AREA_START + 2
    /\ WordAt(memory, PROGRAM_AREA_START) = 53253
    /\ vram[0][0] = 1
    /\ ~vram_changed
    /\ tick_result = "Ok"

\* C16: for every nnn other than 0x0E0 and 0x0EE, a tick executing 0nnn
\* sets pc = nnn as 1nnn does, without advancing by 2, and keeps the stack
\* and the stack pointer.
C16_LegacyJumps ==
    [][(main_pc = "loop" /\ tick_result' = "Ok" /\ opcode' # NO_OPCODE
          /\ N1(opcode') = 0 /\ opcode' \notin {224, 238}) =>
          /\ pc' = NNN(opcode')
          /\ stack' = stack
          /\ sp' = sp]_vars

\* C17: for all x and y, 8xy6 leaves VF = the least-significant bit of old
\* Vx and 8xyE leaves VF = the most-significant bit of old Vx; for x other
\* than F, Vx becomes old Vx >> 1, respectively (old Vx << 1) mod 256; Vy
\* plays no part and is kept (Vy for y other than x and F, the registers
\* the instruction writes); pc advances by 2.
C17_ShiftFlagsAndResult ==
    [][(main_pc = "loop" /\ tick_result' = "Ok" /\ opcode' # NO_OPCODE
          /\ N1(opcode') = 8 /\ NN(opcode') \in {6, 14}) =>
          LET x == NX(opcode')
              y == NY(opcode')
          IN  /\ NN(opcode') = 6 =>
                    /\ v'[15] = v[x] % 2
                    /\ x # 15 => v'[x] = v[x] \div 2
              /\ NN(opcode') = 14 =>
                    /\ v'[15] = v[x] \div 128
                    /\ x # 15 => v'[x] = (v[x] * 2) % 256
              /\ y \notin {x, 15} => v'[y] = v[y]
              /\ pc' = pc + 2]_vars

\* C18: a tick executing Fx1E sets I to old I + Vx within 16 bits,
\* advances pc by 2 and changes no register V0..VF (VF included), no
\* memory byte, no stack slot, not the stack pointer and no pixel.
C18_AddIKeepsRegisters ==
    [][(main_pc = "loop" /\ tick_result' = "Ok" /\ opcode' # NO_OPCODE
          /\ N1(opcode') = 15 /\ KK(opcode') = 30) =>
          /\ i' = (i + v[NX(opcode')]) % (U16_MAX + 1)
          /\ pc' = pc + 2
          /\ << v', memory', stack', sp', vram' >>
                = << v, memory, stack, sp, vram >>]_vars

\* What the Cxkk at pc can leave in Vx: exec_rnd over every draw the
\* tick can make.
RndResults ==
    LET op == WordAt(memory, pc)
    IN  { exec_rnd(Self, NX(op), KK(op), r).v[NX(op)] : r \in RandomDraws }

\* C19: Cxkk sets Vx to r AND kk for a byte r that can be any of 0..255, so
\* that where Cxkk is about to execute each of the 256 values r AND kk (with
\* kk = 0xFF each byte 0..255) is a possible content of Vx after the tick;
\* after Cxkk no bit outside kk is set in Vx and pc has advanced by 2.
C19_RandomByteOverWholeRange ==
    /\ (main_pc = "loop" /\ NextIsRnd) =>
          \A r \in 0 .. U8_MAX :
             BitAnd(r, KK(WordAt(memory, pc))) \in RndResults
    /\ (tick_result = "Ok" /\ opcode # NO_OPCODE /\ N1(opcode) = 12) =>
          /\ BitAnd(v[NX(opcode)], U8_MAX - KK(opcode)) = 0
          /\ pc = fetch_pc + 2

\* C20: a tick that fetches Ex9E advances pc by 4 when the key whose index
\* is the value of Vx is pressed in the snapshot of this tick and by 2
\* otherwise, one that fetches ExA1 by 4 when that key is not pressed and by
\* 2 otherwise; for every value of Vx in 0..255 the tick returns, and it
\* keeps V0..VF, I, memory, stack, stack pointer and frame buffer.
C20_KeySkipsForEveryVx ==
    [][(main_pc = "loop" /\ ~Waiting /\ FetchInBounds(pc)
          /\ N1(WordAt(memory, pc)) = 14
          /\ KK(WordAt(memory, pc)) \in {158, 161}) =>
          LET pressed == v[NX(WordAt(memory, pc))] \in Pressed(keypad')
              skips == IF KK(WordAt(memory, pc)) = 158 THEN pressed ELSE ~pressed
          IN  /\ tick_result' = "Ok"
              /\ pc' = (IF skips THEN pc + 4 ELSE pc + 2)
              /\ << v', i', memory', stack', sp', vram' >>
                    = << v, i, memory, stack, sp, vram >>]_vars

\* The stack slots.
Slots == 0 .. STACK_SIZE - 1

IsJump(op) == N1(op) \in {1, 2, 11} \/ (N1(op) = 0 /\ op # 224)

\* Whether the step executes a skip instruction whose condition holds:
\* 3xkk, 4xkk, 5xy0, 9xy0 on the registers before the tick, Ex9E and ExA1
\* on the snapshot of the tick.  (The match takes every 5xyN for 5xy0.)
SkipTaken(op) ==
    LET x == NX(op)
        y == NY(op)
    IN  \/ N1(op) = 3 /\ v[x] = KK(op)
        \/ N1(op) = 4 /\ v[x] # KK(op)
        \/ N1(op) = 5 /\ v[x] = v[y]
        \/ N1(op) = 9 /\ NN(op) = 0 /\ v[x] # v[y]
        \/ N1(op) = 14 /\ KK(op) = 158 /\ v[x] \in Pressed(keypad')
        \/ N1(op) = 14 /\ KK(op) = 161 /\ v[x] \notin Pressed(keypad')

C23_BcdDigits ==
    [][(main_pc = "loop" /\ tick_result' = "Ok" /\ opcode' # NO_OPCODE
          /\ N1(opcode') = 15 /\ KK(opcode') = 51) =>
          /\ i + 2 < MEMORY_SIZE
          /\ \A k \in 0 .. 2 : memory'[i + k] \in 0 .. 9
          /\ 100 * memory'[i] + 10 * memory'[i + 1] + memory'[i + 2]
                = v[NX(opcode')]
          /\ \A a \in 0 .. MEMORY_SIZE - 1 :
                a \notin i .. i + 2 => memory'[a] = memory[a]
          /\ i' = i
          /\ v' = v
          /\ pc' = pc + 2]_vars

\* C23 witness: F033 with V0 = 255 and I = 0x300 left 2, 5, 5 there.
C23_Witness ==
    /\ opcode = 61491
    /\ v[0] = U8_MAX
    /\ i = 768
    /\ memory[768] = 2
    /\ memory[769] = 5
    /\ memory[770] = 5
    /\ tick_result = "Ok"

IsLdIVx(op) == op # NO_OPCODE /\ N1(op) = 15 /\ KK(op) = 85
IsLdVxI(op) == op # NO_OPCODE /\ N1(op) = 15 /\ KK(op) = 101

\* The tick before this step returned after executing the instruction
\* stored right before pc.
JustExecuted == tick_result = "Ok" /\ opcode # NO_OPCODE /\ pc = fetch_pc + 2

\* C24: a tick that returns from Fx55 has copied V0..Vx to memory[I..I+x]
\* and one that returns from Fx65 has copied memory[I..I+x] to V0..Vx;
\* neither changes I, a register above Vx or a memory byte outside
\* I..I+x, and both advance pc by 2.  So Fx65 right after Fx55 with the
\* same x leaves V0..VF as they were before the Fx55, and Fx55 right after
\* Fx65 with the same x leaves memory as it was before the Fx65.
C24_StoreLoadRoundTrip ==
    [][(main_pc = "loop" /\ tick_result' = "Ok") =>
          LET x == NX(opcode')
          IN  /\ IsLdIVx(opcode') =>
                    /\ i + x < MEMORY_SIZE
                    /\ \A a \in 0 .. MEMORY_SIZE - 1 :
                          memory'[a] = (IF a \in i .. i + x THEN v[a - i]
                                        ELSE memory[a])
                    /\ << v', i' >> = << v, i >>
                    /\ pc' = pc + 2
                    /\ (JustExecuted /\ IsLdVxI(opcode) /\ NX(opcode) = x) =>
                          memory' = memory
              /\ IsLdVxI(opcode') =>
                    /\ i + x < MEMORY_SIZE
                    /\ \A r \in 0 .. NUM_REGISTERS - 1 :
                          v'[r] = (IF r <= x THEN memory[i + r] ELSE v[r])
                    /\ << memory', i' >> = << memory, i >>
                    /\ pc' = pc + 2
                    /\ (JustExecuted /\ IsLdIVx(opcode) /\ NX(opcode) = x) =>
                          v' = v]_vars

\* C24 witness: FF65 right after FF55 with I = 0xFF0 left V0, V1, VF as
\* set and the last byte of memory holding VF.
C24_Witness ==
    /\ opcode = 65381
    /\ fetch_pc = PROGRAM_AREA_START + 10
    /\ WordAt(memory, PROGRAM_AREA_START + 8) = 65365
    /\ i = MEMORY_SIZE - 16
    /\ v[0] = 17
    /\ v[1] = 34
    /\ v[15] = 51
    /\ memory[MEMORY_SIZE - 1] = 51
    /\ tick_result = "Ok"

\* GraphicsDriver::draw: the test that picks the colour of a pixel.
is_set(pixel) == pixel = 1

\* C25: in every state each of the 64x32 frame-buffer cells holds 0 or 1,
\* so the test pixel == 1 of the display is true exactly for the cells that
\* are not off; after every Dxyn that returned VF is 0 or 1.
C25_PixelsAreBits ==
    /\ \A r \in 0 .. CHIP8_HEIGHT - 1 : \A c \in 0 .. CHIP8_WIDTH - 1 :
          /\ vram[r][c] \in {0, 1}
          /\ is_set(vram[r][c]) <=> vram[r][c] # 0
    /\ (tick_result = "Ok" /\ opcode # NO_OPCODE /\ N1(opcode) = 13) =>
          v[15] \in {0, 1}

\* C25 witness: D025 at (60, 30) drew the wrapped sprite: pixels on in
\* row 30 and row 0, VF = 0.
C25_Witness ==
    /\ DrewAt(PROGRAM_AREA_START + 8)
    /\ opcode = 53285
    /\ vram[30][63] = 1
    /\ vram[0][60] = 1
    /\ vram[0][61] = 0
    /\ v[15] = 0

====
